---- MODULE Spec2Model ----
(***************************************************************************)
(* Model of short-iron: an actix-web URL shortener whose three handlers    *)
(* (shorten, redirect, debugger) share one RwLock<HashMap<LongURL,         *)
(* ShortUrl>>.  Each handler is a process that steps through the handler   *)
(* body; the lock is held from its acquisition to the handler's return,    *)
(* where the guard is dropped.                                             *)
(***************************************************************************)
EXTENDS FiniteSets, Integers, Sequences, TLC

\* ---------------------------------------------------------------- bounds
\* number of handler invocations that can be in flight at once
NumProcs == 2
\* number of distinct identifiers the generator can return
NumCodes == 2

Procs == 1..NumProcs

\* ------------------------------------------------------ request inputs
\* identifiers nanoid!(10) may return: 10 characters of its URL-safe alphabet
CodeSeq == <<"AbCdEfGhIj", "-I7FhYVD1d", "x_3kQ9-ZtP", "0aB1cD2eF3", "Zz9_yY8-xX">>

Codes == {CodeSeq[i] : i \in 1..NumCodes}

\* an identifier the generator never returns, used as a redirect path
UnknownId == "zzzzzzzzzz"

RedirectIds == Codes \cup {UnknownId}

\* the submitted strings, split into the parts Url::parse distinguishes
RawInputs ==
    { [scheme |-> "https", host |-> "google.com",  path |-> ""],
      [scheme |-> "HTTPS", host |-> "google.com",  path |-> "/"],
      [scheme |-> "https", host |-> "example.com", path |-> ""],
      [scheme |-> "",      host |-> "not a url",   path |-> ""] }

NoRaw == [scheme |-> "", host |-> "", path |-> ""]

\* url_req.url.to_string(): the submitted string as the client sent it
SubmittedUrl(r) ==
    IF r.scheme = "" THEN r.host \o r.path
    ELSE r.scheme \o "://" \o r.host \o r.path

LowerScheme(s) == IF s = "HTTPS" THEN "https" ELSE s

\* Url::parse(submitted_url): a string without a scheme or without a host
\* is rejected; the scheme is lower-cased and an empty path becomes "/".
Parse_AcceptAll(r) ==
    [ok |-> TRUE, url |-> SubmittedUrl(r)]

Parse(r) ==
    IF r.scheme = "" \/ r.host = ""
    THEN [ok |-> FALSE, url |-> ""]
    ELSE [ok |-> TRUE,
          url |-> LowerScheme(r.scheme) \o "://" \o r.host
                  \o (IF r.path = "" THEN "/" ELSE r.path)]

\* valid_url.to_string(): the key under which shorten looks up and inserts
MapKey_Raw(r) == SubmittedUrl(r)

MapKey(r) == Parse(r).url

\* shorten: format!("short.fe/{}", nanoid!(10))
ShortUrl_NoPrefix(id) == id

ShortUrl(id) == "short.fe/" \o id

\* redirect: format!("short.fe/{}", redirect_id.0.to_string())
ConstructedUrl(id) == "short.fe/" \o id

\* ------------------------------------------------------------- HashMap
EmptyMap == [k \in {} |-> ""]

\* HashMap::insert: adds the key, or replaces the value of an existing key
MapInsert_DropOthers(m, k, v) == [x \in {k} |-> v]

MapInsert(m, k, v) == [x \in (DOMAIN m) \cup {k} |-> IF x = k THEN v ELSE m[x]]

\* HashMap::get: Some(value) or None
None == "None"

MapGet_AlwaysNone(m, k) == None

MapGet(m, k) == IF k \in DOMAIN m THEN m[k] ELSE None

\* ------------------------------------------------------------ responses
NoResponse  == [status |-> 0,   body |-> ""]
BadRequest  == [status |-> 400, body |-> "Failed to parse input as a URL"]
NotFound    == [status |-> 404, body |-> ""]
Ok(s)       == [status |-> 200, body |-> s]
SeeOther(u) == [status |-> 303, body |-> u]

VARIABLES
    urls,      \* KnownUrls.urls: the HashMap<LongURL, ShortUrl>
    writers,   \* handlers holding the RwLock's write guard
    readers,   \* handlers holding a read guard
    pc,        \* position of each handler invocation
    raw,       \* shorten: the submitted url_req.url
    rid,       \* redirect: the redirect_id path segment
    res,       \* the response of shorten / redirect
    snap,      \* debugger: the HashMap returned by urls.to_owned()
    lockMap,   \* history: the map at the moment a reader got its guard
    callHist,  \* history: URLs whose shorten had returned rid's short URL
               \* when the redirect was called (both kept until it returns)
    history,   \* history: the key and short URL of returned shorten calls
    inserts    \* history: number of urls.insert calls per key (saturates at 2)

vars == <<urls, writers, readers, pc, raw, rid, res, snap,
          lockMap, callHist, history, inserts>>

\* --------------------------------------------------------------- RwLock
\* RwLock::write(): granted when nobody holds the lock
CanAcquireWrite_IgnoreAll == TRUE

CanAcquireWrite_IgnoreReaders == writers = {}

CanAcquireWrite == writers = {} /\ readers = {}

\* RwLock::read(): granted when no writer holds the lock
CanAcquireRead_IgnoreWriter == TRUE

CanAcquireRead_Exclusive == writers = {} /\ readers = {}

CanAcquireRead == writers = {}

InsertCount(k) == IF k \in DOMAIN inserts THEN inserts[k] ELSE 0

\* main(): RwLock::new(HashMap::new()), no request in flight
Init ==
    /\ urls = EmptyMap
    /\ writers = {}
    /\ readers = {}
    /\ pc = [p \in Procs |-> "idle"]
    /\ raw = [p \in Procs |-> NoRaw]
    /\ rid = [p \in Procs |-> ""]
    /\ res = [p \in Procs |-> NoResponse]
    /\ snap = [p \in Procs |-> EmptyMap]
    /\ lockMap = [p \in Procs |-> EmptyMap]
    /\ callHist = [p \in Procs |-> {}]
    /\ history = {}
    /\ inserts = EmptyMap

\* ------------------------------------------------------------- shorten
\* lines 22-35: parse the submitted string, reject it with 400 if invalid
ShortenParse(p, r) ==
    /\ pc[p] = "idle"
    /\ raw' = [raw EXCEPT ![p] = r]
    /\ IF Parse(r).ok
       THEN /\ pc' = [pc EXCEPT ![p] = "s_lock"]
            /\ res' = res
       ELSE /\ pc' = [pc EXCEPT ![p] = "s_done"]
            /\ res' = [res EXCEPT ![p] = BadRequest]
    /\ UNCHANGED <<urls, writers, readers, rid, snap, lockMap,
                   callHist, history, inserts>>

\* line 37: known_urls.urls.write().await
ShortenAcquire(p) ==
    /\ pc[p] = "s_lock"
    /\ CanAcquireWrite
    /\ writers' = writers \cup {p}
    /\ pc' = [pc EXCEPT ![p] = "s_get"]
    /\ UNCHANGED <<urls, readers, raw, rid, res, snap, lockMap, callHist,
                   history, inserts>>

\* line 42: match urls.get(&valid_url.to_string())
ShortenGet(p) ==
    /\ pc[p] = "s_get"
    /\ LET e == MapGet(urls, MapKey(raw[p])) IN
         /\ IF e # None
            THEN /\ res' = [res EXCEPT ![p] = Ok(e)]
                 /\ pc' = [pc EXCEPT ![p] = "s_existing"]
            ELSE /\ res' = res
                 /\ pc' = [pc EXCEPT ![p] = "s_insert"]
    /\ UNCHANGED <<urls, writers, readers, raw, rid, snap, lockMap, callHist,
                   history, inserts>>

\* lines 55-68: generate an identifier and insert the pair; the generated
\* identifier is whatever nanoid returns, it is not compared with the map
ShortenInsert(p, c) ==
    /\ pc[p] = "s_insert"
    /\ LET k == MapKey(raw[p])
           shortened == ShortUrl(c) IN
         /\ urls' = MapInsert(urls, k, shortened)
         /\ inserts' = MapInsert(inserts, k,
                                 IF InsertCount(k) = 0 THEN 1 ELSE 2)
         /\ res' = [res EXCEPT ![p] = Ok(shortened)]
    /\ pc' = [pc EXCEPT ![p] = "s_inserted"]
    /\ UNCHANGED <<writers, readers, raw, rid, snap, lockMap,
                   callHist, history>>

\* lines 48, 68, 71: either arm returns its short URL and the write guard
\* is dropped
ShortenReturn_KeepGuard(p) ==
    /\ pc[p] \in {"s_existing", "s_inserted"}
    /\ history' = history \cup {[key |-> MapKey(raw[p]), code |-> res[p].body]}
    /\ pc' = [pc EXCEPT ![p] = "s_done"]
    /\ UNCHANGED <<urls, writers, readers, raw, rid, res, snap, lockMap,
                   callHist, inserts>>

ShortenReturn(p) ==
    /\ pc[p] \in {"s_existing", "s_inserted"}
    /\ writers' = writers \ {p}
    /\ history' = history \cup {[key |-> MapKey(raw[p]), code |-> res[p].body]}
    /\ pc' = [pc EXCEPT ![p] = "s_done"]
    /\ UNCHANGED <<urls, readers, raw, rid, res, snap, lockMap,
                   callHist, inserts>>

\* ------------------------------------------------------------ redirect
\* a GET /{redirect_id} request reaches the handler
RedirectCall(p, id) ==
    /\ pc[p] = "idle"
    /\ rid' = [rid EXCEPT ![p] = id]
    /\ callHist' = [callHist EXCEPT ![p] =
                        {h.key : h \in {g \in history : g.code = ShortUrl(id)}}]
    /\ pc' = [pc EXCEPT ![p] = "r_lock"]
    /\ UNCHANGED <<urls, writers, readers, raw, res, snap, lockMap,
                   history, inserts>>

\* line 13: known_urls.urls.read().await
RedirectAcquire(p) ==
    /\ pc[p] = "r_lock"
    /\ CanAcquireRead
    /\ readers' = readers \cup {p}
    /\ lockMap' = [lockMap EXCEPT ![p] = urls]
    /\ pc' = [pc EXCEPT ![p] = "r_find"]
    /\ UNCHANGED <<urls, writers, raw, rid, res, snap, callHist,
                   history, inserts>>

\* the keys whose value equals the constructed short URL
Matches_AnyKey(m, id) == DOMAIN m

Matches(m, id) == {k \in DOMAIN m : m[k] = ConstructedUrl(id)}

\* lines 16-33: urls.iter().find_map(..): the first match in the HashMap's
\* iteration order, which is arbitrary
RedirectFind(p) ==
    /\ pc[p] = "r_find"
    /\ LET ms == Matches(urls, rid[p]) IN
         IF ms = {}
         THEN res' = [res EXCEPT ![p] = NotFound]
         ELSE \E k \in ms : res' = [res EXCEPT ![p] = SeeOther(k)]
    /\ pc' = [pc EXCEPT ![p] = "r_ret"]
    /\ UNCHANGED <<urls, writers, readers, raw, rid, snap, lockMap,
                   callHist, history, inserts>>

\* lines 37-50: the response is returned and the read guard is dropped
RedirectReturn_KeepGuard(p) ==
    /\ pc[p] = "r_ret"
    /\ pc' = [pc EXCEPT ![p] = "r_done"]
    /\ lockMap' = [lockMap EXCEPT ![p] = EmptyMap]
    /\ callHist' = [callHist EXCEPT ![p] = {}]
    /\ UNCHANGED <<urls, writers, readers, raw, rid, res, snap, history,
                   inserts>>

RedirectReturn(p) ==
    /\ pc[p] = "r_ret"
    /\ readers' = readers \ {p}
    /\ pc' = [pc EXCEPT ![p] = "r_done"]
    /\ lockMap' = [lockMap EXCEPT ![p] = EmptyMap]
    /\ callHist' = [callHist EXCEPT ![p] = {}]
    /\ UNCHANGED <<urls, writers, raw, rid, res, snap, history, inserts>>

\* ------------------------------------------------------------ debugger
\* a GET /misc/debug request reaches the handler
DebuggerCall(p) ==
    /\ pc[p] = "idle"
    /\ pc' = [pc EXCEPT ![p] = "d_lock"]
    /\ UNCHANGED <<urls, writers, readers, raw, rid, res, snap,
                   lockMap, callHist, history, inserts>>

\* line 10: known_urls.urls.read().await
DebuggerAcquire(p) ==
    /\ pc[p] = "d_lock"
    /\ CanAcquireRead
    /\ readers' = readers \cup {p}
    /\ lockMap' = [lockMap EXCEPT ![p] = urls]
    /\ pc' = [pc EXCEPT ![p] = "d_copy"]
    /\ UNCHANGED <<urls, writers, raw, rid, res, snap, callHist,
                   history, inserts>>

\* line 13: urls.to_owned() clones the HashMap
DebuggerCopy(p) ==
    /\ pc[p] = "d_copy"
    /\ snap' = [snap EXCEPT ![p] = urls]
    /\ pc' = [pc EXCEPT ![p] = "d_ret"]
    /\ UNCHANGED <<urls, writers, readers, raw, rid, res, lockMap,
                   callHist, history, inserts>>

\* line 14: Json(..) is returned and the read guard is dropped
DebuggerReturn(p) ==
    /\ pc[p] = "d_ret"
    /\ readers' = readers \ {p}
    /\ pc' = [pc EXCEPT ![p] = "d_done"]
    /\ UNCHANGED <<urls, writers, raw, rid, res, snap, lockMap,
                   callHist, history, inserts>>

\* the response has been sent; the worker can take the next request
Finish(p) ==
    /\ pc[p] \in {"s_done", "r_done", "d_done"}
    /\ pc' = [pc EXCEPT ![p] = "idle"]
    /\ raw' = [raw EXCEPT ![p] = NoRaw]
    /\ rid' = [rid EXCEPT ![p] = ""]
    /\ res' = [res EXCEPT ![p] = NoResponse]
    /\ snap' = [snap EXCEPT ![p] = EmptyMap]
    /\ lockMap' = [lockMap EXCEPT ![p] = EmptyMap]
    /\ callHist' = [callHist EXCEPT ![p] = {}]
    /\ UNCHANGED <<urls, writers, readers, history, inserts>>

Next ==
    \E p \in Procs :
        \/ \E r \in RawInputs : ShortenParse(p, r)
        \/ ShortenAcquire(p)
        \/ ShortenGet(p)
        \/ \E c \in Codes : ShortenInsert(p, c)
        \/ ShortenReturn(p)
        \/ \E id \in RedirectIds : RedirectCall(p, id)
        \/ RedirectAcquire(p)
        \/ RedirectFind(p)
        \/ RedirectReturn(p)
        \/ DebuggerCall(p)
        \/ DebuggerAcquire(p)
        \/ DebuggerCopy(p)
        \/ DebuggerReturn(p)
        \/ Finish(p)

Spec == Init /\ [][Next]_vars

\* the steps of an invocation after the request arrived: each is a poll of
\* the handler's future, which the executor runs whenever it is ready
Progress(p) ==
    \/ ShortenAcquire(p)
    \/ ShortenGet(p)
    \/ \E c \in Codes : ShortenInsert(p, c)
    \/ ShortenReturn(p)
    \/ RedirectAcquire(p)
    \/ RedirectFind(p)
    \/ RedirectReturn(p)
    \/ DebuggerAcquire(p)
    \/ DebuggerCopy(p)
    \/ DebuggerReturn(p)

\* a finite number of calls: every worker serves at most one request
LiveNext ==
    \E p \in Procs :
        \/ \E r \in RawInputs : ShortenParse(p, r)
        \/ \E id \in RedirectIds : RedirectCall(p, id)
        \/ DebuggerCall(p)
        \/ Progress(p)

\* a handler that can be polled is eventually polled; a release of the lock
\* wakes the handlers waiting for it
LiveSpec == Init /\ [][LiveNext]_vars /\ \A p \in Procs : WF_vars(Progress(p))

\* ---------------------------------------------------------- properties
ShortenPcs == {"s_get", "s_existing", "s_insert", "s_inserted"}

ReaderPcs == {"r_find", "r_ret", "d_copy", "d_ret"}

\* a shorten call that returned 200 and whose response is still observable
Returned(p) == pc[p] = "s_done" /\ res[p].status = 200

\* the canonical string of a submitted URL, as the url crate renders it
Canonical(r) ==
    LowerScheme(r.scheme) \o "://" \o r.host \o (IF r.path = "" THEN "/" ELSE r.path)

\* a submitted string that is not an absolute URL
InvalidRaw(r) == r.scheme = "" \/ r.host = ""

\* C1: in every interleaving of concurrent shorten calls for one URL, at
\* most one call takes the insert branch for that URL, the map holds one
\* entry for it, and all calls that returned carry that entry's short URL.
C1_ConcurrentShortenOnce ==
    /\ \A k \in DOMAIN inserts : inserts[k] <= 1 /\ k \in DOMAIN urls
    /\ \A p \in Procs : Returned(p) =>
          /\ Canonical(raw[p]) \in DOMAIN urls
          /\ urls[Canonical(raw[p])] = res[p].body
    /\ \A p, q \in Procs :
          (Returned(p) /\ Returned(q) /\ Canonical(raw[p]) = Canonical(raw[q]))
             => res[p] = res[q]

\* a shorten call has inserted and still holds the write guard while another
\* call for the same URL is waiting for the lock
C1_Witness ==
    \E p, q \in Procs :
        /\ p # q
        /\ pc[p] = "s_inserted" /\ pc[q] = "s_lock"
        /\ Canonical(raw[p]) = Canonical(raw[q])
        /\ InsertCount(Canonical(raw[p])) = 1

\* C2: idempotence: any two completed shorten calls for the same URL returned
\* the same short URL, whatever happened in between.
C2_Idempotent ==
    /\ \A a, b \in history : a.key = b.key => a.code = b.code
    /\ \A p \in Procs : Returned(p) =>
          \A h \in history : h.key = Canonical(raw[p]) => h.code = res[p].body

\* two calls for one URL have both returned, after another URL was shortened
\* and its call finished
C2_Witness ==
    \E p, q \in Procs :
        /\ p # q
        /\ Returned(p) /\ Returned(q)
        /\ Canonical(raw[p]) = Canonical(raw[q])
        /\ Cardinality(DOMAIN urls) = 2
        /\ Cardinality(history) = 2
        /\ [key |-> Canonical(raw[p]), code |-> res[p].body] \in history

\* C3: injectivity: no two URLs of the map carry the same short URL, even
\* when the generator returns an identifier that is already in the map.
C3_Injective ==
    \A k1, k2 \in DOMAIN urls : k1 # k2 => urls[k1] # urls[k2]

\* C4: round trip: a redirect called after shorten(u) returned the short URL
\* of its identifier answers 303 with Location u.
C4_RoundTrip ==
    \A p \in Procs : pc[p] = "r_ret" =>
        \A u \in callHist[p] : res[p] = SeeOther(u)

\* C5: a redirect whose short URL is the value of no entry at the moment it
\* got the read guard answers 404, as an ordinary response.
C5_NotFound ==
    \A p \in Procs :
        (/\ pc[p] = "r_ret"
         /\ ~\E k \in DOMAIN lockMap[p] : lockMap[p][k] = "short.fe/" \o rid[p])
            => res[p] = NotFound

\* a redirect for an identifier that was never generated has built its 404
\* response on a map that is no longer empty
C5_Witness ==
    \E p \in Procs :
        /\ pc[p] = "r_ret"
        /\ rid[p] = UnknownId
        /\ lockMap[p] # EmptyMap
        /\ res[p] = NotFound

\* C6: append-only: no step removes an entry or changes the short URL of an
\* existing key, and each key is inserted at most once.
C6_AppendOnly ==
    [][ /\ \A k \in DOMAIN urls : k \in DOMAIN urls' /\ urls'[k] = urls[k]
        /\ \A k \in DOMAIN inserts' : inserts'[k] <= 1 ]_vars

\* the map holds two entries and a shorten call for an existing key returned
C6_Witness ==
    /\ Cardinality(DOMAIN urls) = 2
    /\ \E p \in Procs :
          /\ Returned(p)
          /\ [key |-> Canonical(raw[p]), code |-> res[p].body] \in history
          /\ \E q \in Procs : pc[q] = "d_done" /\ snap[q] = urls

\* C7: a shorten request whose input is not an absolute URL answers 400 in
\* one step that leaves the map and the lock as they were; it never reaches
\* the lock or the generator.
C7_InvalidNoEffect ==
    [][ \A p \in Procs :
          /\ (pc[p] = "idle" /\ raw'[p] # NoRaw /\ InvalidRaw(raw'[p])) =>
                /\ pc'[p] = "s_done"
                /\ res'[p] = BadRequest
                /\ urls' = urls /\ inserts' = inserts
                /\ writers' = writers /\ readers' = readers
          /\ (raw'[p] # NoRaw /\ InvalidRaw(raw'[p])) =>
                (pc'[p] = "s_done" /\ p \notin writers') ]_vars

\* an invalid request was rejected while the map already held an entry
C7_Witness ==
    \E p \in Procs :
        /\ pc[p] = "s_done"
        /\ InvalidRaw(raw[p])
        /\ res[p] = BadRequest
        /\ urls # EmptyMap

\* C8: the map the debugger returns equals the map at the moment it got the
\* read guard, and stays that value when shorten inserts afterwards.
C8_SnapshotAtLock ==
    \A p \in Procs : pc[p] \in {"d_ret", "d_done"} => snap[p] = lockMap[p]

\* a returned copy holds an entry and the map has grown since
C8_Witness ==
    \E p \in Procs :
        /\ pc[p] = "d_done"
        /\ snap[p] # EmptyMap
        /\ snap[p] # urls

\* C9: the map is keyed on the parsed URL: calls whose inputs parse to the
\* same string share one entry and one short URL, calls whose parsed strings
\* differ each have their own entry.
C9_CanonicalKey ==
    /\ DOMAIN urls \subseteq {Canonical(r) : r \in {x \in RawInputs : ~InvalidRaw(x)}}
    /\ \A p, q \in Procs : (Returned(p) /\ Returned(q)) =>
          LET kp == Canonical(raw[p])
              kq == Canonical(raw[q]) IN
            /\ kp = kq => (res[p] = res[q] /\ InsertCount(kp) = 1)
            /\ kp # kq => /\ {kp, kq} \subseteq DOMAIN urls
                          /\ urls[kp] = res[p].body
                          /\ urls[kq] = res[q].body

\* two calls whose submitted strings differ but parse to the same URL have
\* both returned
C9_Witness ==
    \E p, q \in Procs :
        /\ Returned(p) /\ Returned(q)
        /\ SubmittedUrl(raw[p]) # SubmittedUrl(raw[q])
        /\ Canonical(raw[p]) = Canonical(raw[q])
        /\ res[p] = res[q]
        /\ Cardinality(DOMAIN urls) = 1

\* C10: the lock is free, or held by one shorten as writer and no reader, or
\* held by readers only; a shorten holds the write guard from before its
\* lookup until it returns.
C10_ReaderWriterExclusive ==
    /\ Cardinality(writers) <= 1
    /\ writers # {} => readers = {}
    /\ writers = {p \in Procs : pc[p] \in ShortenPcs}
    /\ readers = {p \in Procs : pc[p] \in ReaderPcs}

\* a shorten is between its lookup and its insert while a reader waits
C10_Witness ==
    \E p, q \in Procs :
        /\ pc[p] = "s_insert" /\ writers = {p}
        /\ pc[q] \in {"r_lock", "d_lock"}

\* an invocation that is between its call and its return
InProgress(p) ==
    pc[p] \in {"s_lock", "r_lock", "d_lock"} \cup ShortenPcs \cup ReaderPcs

\* C11: redirect is deterministic: for every identifier at most one URL of
\* the map carries its short URL, so the scan order cannot change the answer.
C11_AtMostOneMatch ==
    \A id \in RedirectIds :
        Cardinality({k \in DOMAIN urls : urls[k] = "short.fe/" \o id}) <= 1

\* C12: with finitely many calls no handler waits on the lock in a state
\* where no started call can step, and under fair scheduling every started
\* call returns and ends up holding no guard.
C12_NoDeadlockAndCompletion ==
    /\ []((\E p \in Procs : pc[p] \in {"s_lock", "r_lock", "d_lock"})
             => ENABLED (\E q \in Procs : Progress(q)))
    /\ \A p \in Procs :
          InProgress(p) ~> (/\ pc[p] \in {"s_done", "r_done", "d_done"}
                            /\ p \notin writers \cup readers)

\* a shorten waits for the lock while every other worker holds a read guard
C12_Witness ==
    \E p \in Procs :
        /\ pc[p] = "s_lock"
        /\ readers = Procs \ {p}
        /\ \E q \in readers : pc[q] \in {"r_find", "r_ret"}

C14_ShortUrlEncoding ==
    /\ \A k \in DOMAIN urls :
          \E c \in Codes : urls[k] = "short.fe/" \o c /\ Len(c) = 10
    /\ \A p \in Procs : Returned(p) =>
          \E c \in Codes : res[p].body = "short.fe/" \o c /\ Len(c) = 10
    /\ \A p \in Procs :
          (/\ pc[p] = "r_ret"
           /\ \E k \in DOMAIN lockMap[p] : lockMap[p][k] = "short.fe/" \o rid[p])
             => res[p].status = 303

\* a shorten returned a short URL and a redirect for its identifier found it
C14_Witness ==
    \E p, q \in Procs :
        /\ Returned(p)
        /\ pc[q] = "r_ret"
        /\ res[p].body = "short.fe/" \o rid[q]
        /\ res[q] = SeeOther(Canonical(raw[p]))

\* C15: the map starts empty; a step changes it only when a shorten that
\* passed validation executes its insert for a URL that was absent, adding
\* exactly that URL; the key set is the set of URLs so inserted.
C15_KeysAreInsertedUrls ==
    /\ urls = EmptyMap
    /\ [][ /\ urls' # urls =>
                \E p \in Procs :
                    /\ pc[p] = "s_insert" /\ pc'[p] = "s_inserted"
                    /\ ~InvalidRaw(raw[p])
                    /\ Canonical(raw[p]) \notin DOMAIN urls
                    /\ DOMAIN urls' = DOMAIN urls \cup {Canonical(raw[p])}
           /\ \A p \in Procs :
                (pc[p] = "s_insert" /\ pc'[p] = "s_inserted") =>
                    Cardinality(DOMAIN urls') = Cardinality(DOMAIN urls) + 1
           /\ \A p \in Procs :
                (pc[p] = "s_get" /\ pc'[p] = "s_existing") =>
                    (urls' = urls /\ Canonical(raw[p]) \in DOMAIN urls)
           /\ DOMAIN urls' = DOMAIN inserts' ]_vars

\* two URLs were inserted and a later shorten of one of them took the
\* existing arm
C15_Witness ==
    /\ Cardinality(DOMAIN urls) = 2
    /\ \E p \in Procs : pc[p] = "s_existing"

\* C16: redirect and debugger leave the map unchanged: none of their steps
\* changes it, and when they return, on the found and the not-found path,
\* the map equals the map at the moment they took the read guard.
C16_ReadersLeaveMap ==
    [][ \A p \in Procs :
          /\ (pc[p] \in ReaderPcs /\ pc'[p] # pc[p]) => urls' = urls
          /\ (pc[p] \in {"r_ret", "d_ret"} /\ pc'[p] \in {"r_done", "d_done"})
                => urls' = lockMap[p] ]_vars

\* a redirect that found its URL and one that did not have both returned
C16_Witness ==
    \E p, q \in Procs :
        /\ pc[p] = "r_done" /\ res[p].status = 303
        /\ pc[q] = "r_done" /\ res[q].status = 404
        /\ urls # EmptyMap

\* C17: every handler drops its guard on every path: when no invocation is
\* in progress the lock has no writer and no reader.
C17_LockFreeWhenQuiet ==
    /\ (\A p \in Procs : ~InProgress(p)) => (writers = {} /\ readers = {})
    /\ \A p \in Procs : ~InProgress(p) => p \notin writers \cup readers

\* a shorten that inserted and a redirect that missed have both returned
C17_Witness ==
    \E p, q \in Procs :
        /\ Returned(p) /\ InsertCount(Canonical(raw[p])) = 1
        /\ pc[q] = "r_done" /\ res[q].status = 404
        /\ writers = {} /\ readers = {}

====
